---- MODULE Spec2Model ----
(***************************************************************************)
(* A model of the anti-poisoning DNS resolver of clash-rs                  *)
(* (clash/src/app/dns/resolver.rs): the Resolver struct, the resolve /     *)
(* resolve_v4 / resolve_v6 entry points, the cache-aware exchange, the     *)
(* dispatch in exchange_no_cache / ip_exchange and the race over a client  *)
(* set in batch_exchange, with the per-client futures::lock::Mutex and the *)
(* 10 second tokio sleep.                                                  *)
(* A second part models the provider Fetcher                               *)
(* (clash/src/common/providers/fether.rs): initial(), update_inner() and   *)
(* the task spawned by pull_loop().                                        *)
(*                                                                         *)
(* Host names are sequences of labels ("a.b" is <<"a", "b">>); addresses   *)
(* are records [fam, a] with a the sequence of the address's numbers.      *)
(***************************************************************************)
EXTENDS Naturals, Sequences, FiniteSets, TLC

VARIABLES
    cfg,        \* the Resolver struct's immutable fields
    conf,       \* the dns Config that Resolver::new built cfg from
    fetcher,    \* the provider Fetcher, its FetcherInner and its pull task
    files,      \* the file at the fetcher vehicle's path
    env,        \* the callers (the calls each may make) and the upstreams
                \* (the answer sections they may send)
    lru_cache,  \* Resolver.lru_cache: the entries of the response cache
    lock,       \* per client: the request holding its Mutex, 0 when free
    pc,         \* per request: idle, the pool it is racing, or done
    call,       \* per request: the operation and host it was called with
    cstate,     \* per request and client: the state of the client's future
    timer,      \* per request: seconds since its running race started
    raceRes,    \* per request and pool: the result of batch_exchange
    called,     \* per request: the clients whose exchange() was invoked
    peeked,     \* per request: whether exchange() looked into the cache
    exchanged,  \* per request: what exchange() returned
    result      \* per request: what resolve* returned

vars == <<cfg, conf, fetcher, files, env, lru_cache, lock, pc, call, cstate,
          timer, raceRes, called, peeked, exchanged, result>>

(***************************************************************************)
(* Bounds of the model and constants of the program.                       *)
(***************************************************************************)
NumReqs == 2

MaxNesting == 3

MaxInterval == 2

MaxClock == 3

MaxTicks == 2

TickStep == 5

BatchTimeout == 10

Reqs == 1..NumReqs

Range(s) == {s[i] : i \in DOMAIN s}

Min(S) == CHOOSE x \in S : \A y \in S : x <= y

(***************************************************************************)
(* Values: Option, addresses, host names.                                  *)
(***************************************************************************)
Some(x) == [some |-> TRUE, v |-> x]

NoneSeq == [some |-> FALSE, v |-> <<>>]

NoneSet == [some |-> FALSE, v |-> {}]

V4(a) == [fam |-> "v4", a |-> a]

V6(a) == [fam |-> "v6", a |-> a]

NoIp == [fam |-> "none", a |-> <<>>]

NoneIp == [some |-> FALSE, v |-> NoIp]

Ip4Good == V4(<<5, 6, 7, 8>>)

Ip4Poison == V4(<<1, 2, 3, 4>>)

Ip6Good == V6(<<0, 0, 0, 0, 0, 0, 0, 1>>)

Ip6Host == V6(<<0, 0, 0, 0, 0, 0, 0, 2>>)

Ip4Host == V4(<<7, 7, 7, 7>>)

\* An address of the country "CN" outside every configured CIDR range.
Ip4Geo == V4(<<9, 9, 9, 9>>)

HostBlocked == <<"host", "blocked", "example">>

HostCorp == <<"internal", "corp", "example">>

HostLit4 == <<"1", "2", "3", "4">>

HostLit6 == <<"::1">>

Hosts == {HostBlocked, HostCorp, HostLit4, HostLit6}

(***************************************************************************)
(* str::parse::<Ipv4Addr> / str::parse::<Ipv6Addr>: an IPv4 literal is     *)
(* four decimal labels, each at most 255; an IPv6 literal is one label     *)
(* (it holds no dot) in colon notation.                                    *)
(***************************************************************************)
DecimalValue ==
    [s \in {"0", "1", "2", "3", "4", "255", "256"} |->
        CASE s = "0" -> 0 [] s = "1" -> 1 [] s = "2" -> 2 [] s = "3" -> 3
          [] s = "4" -> 4 [] s = "255" -> 255 [] s = "256" -> 256]

Ipv6Text ==
    [s \in {"::1", "::2"} |->
        IF s = "::1" THEN <<0, 0, 0, 0, 0, 0, 0, 1>>
                     ELSE <<0, 0, 0, 0, 0, 0, 0, 2>>]

parse_Ipv4Addr(host) ==
    IF /\ Len(host) = 4
       /\ \A i \in 1..4 : /\ host[i] \in DOMAIN DecimalValue
                          /\ DecimalValue[host[i]] <= 255
    THEN Some(V4([i \in 1..4 |-> DecimalValue[host[i]]]))
    ELSE NoneIp

parse_Ipv6Addr(host) ==
    IF Len(host) = 1 /\ host[1] \in DOMAIN Ipv6Text
    THEN Some(V6(Ipv6Text[host[1]]))
    ELSE NoneIp

(***************************************************************************)
(* trie::StringTrie::search: the entry with the longest key that is a      *)
(* suffix of the domain, none when no key is.  A trie is a set of entries  *)
(* [key, data].                                                            *)
(***************************************************************************)
IsSuffix(key, domain) ==
    /\ Len(key) <= Len(domain)
    /\ \A i \in 1..Len(key) : key[i] = domain[Len(domain) - Len(key) + i]

TrieMatches(trie, domain) == {e \in trie : IsSuffix(e.key, domain)}

TrieSearch(trie, domain) ==
    CHOOSE e \in TrieMatches(trie, domain) :
        \A o \in TrieMatches(trie, domain) : Len(o.key) <= Len(e.key)

(***************************************************************************)
(* The filters: DomainFilter over domain suffixes, IPNetFilter over a      *)
(* CIDR prefix of whole octets, GeoIPFilter over a country table.          *)
(***************************************************************************)
DomainFilterApply(f, domain) == \E s \in f : IsSuffix(s, domain)

GeoCountry(ip) == IF ip \in {Ip4Poison, Ip4Geo} THEN "CN" ELSE "US"

IPFilterApply(f, ip) ==
    IF f.kind = "geoip"
    THEN GeoCountry(ip) = f.code
    ELSE /\ ip.fam = "v4"
         /\ \A i \in 1..Len(f.prefix) : ip.a[i] = f.prefix[i]

(***************************************************************************)
(* Messages.  A query is one question; a response names the client that    *)
(* produced it and carries typed answer records [rtype, data].             *)
(***************************************************************************)
Query(host, rtype) == [name |-> host, qtype |-> rtype, qclass |-> "IN"]

QueryToString(q) == <<q.name, q.qtype, q.qclass>>

RecA(ip) == [rtype |-> "A", data |-> ip]

RecAAAA(ip) == [rtype |-> "AAAA", data |-> ip]

RecCNAME == [rtype |-> "CNAME", data |-> NoIp]

AnswerLists ==
    { <<>>,
      <<RecCNAME, RecA(Ip4Good)>>,
      <<RecA(Ip4Poison)>>,
      <<RecAAAA(Ip6Good)>>,
      <<RecA(Ip4Good), RecAAAA(Ip6Good)>> }

RNone == [kind |-> "none", from |-> "", answers |-> <<>>, err |-> ""]

ROk(c, answers) == [kind |-> "ok", from |-> c, answers |-> answers, err |-> ""]

RErr(c, e) == [kind |-> "err", from |-> c, answers |-> <<>>, err |-> e]

ErrTimeout == RErr("", "DNS query timeout")

RPanic == [kind |-> "panic", from |-> "", answers |-> <<>>, err |-> "select_ok"]

Ok(ip) == [kind |-> "ok", ip |-> ip, err |-> ""]

Err(e) == [kind |-> "err", ip |-> NoIp, err |-> e]

Panic == [kind |-> "panic", ip |-> NoIp, err |-> "unreachable"]

NoResult == [kind |-> "none", ip |-> NoIp, err |-> ""]

(***************************************************************************)
(* The client pools.  make_clients builds every pool from its own server   *)
(* list, so the pools share no client.                                     *)
(***************************************************************************)
MainClients == <<"m1", "m2">>

FallbackClients == <<"f1">>

PolicyClients == <<"p1">>

DefaultClients == <<"d1">>

Clients == Range(MainClients) \cup Range(FallbackClients) \cup Range(PolicyClients)

Pools == {"main", "fallback", "policy"}

(***************************************************************************)
(* The dns Config.  A NameServer names the client it becomes, its          *)
(* transport (net) and whether DnsClient::new succeeds for it (builds).    *)
(***************************************************************************)
NameServer(id, net, builds) == [id |-> id, net |-> net, builds |-> builds]

NameServerLists ==
    { <<NameServer("m1", "udp", TRUE), NameServer("m2", "udp", TRUE)>>,
      <<NameServer("m1", "udp", FALSE), NameServer("m2", "udp", FALSE)>>,
      <<NameServer("m1", "https", TRUE), NameServer("m2", "udp", TRUE)>> }

FallbackLists == {<<>>, <<NameServer("f1", "udp", TRUE)>>}

DefaultLists == {<<NameServer("d1", "udp", TRUE)>>}

PolicyTables ==
    {{}, {[key |-> <<"corp", "example">>, data |-> NameServer("p1", "udp", TRUE)]}}

HostTables ==
    {NoneSet}
    \cup {Some({[key |-> k, data |-> ip]}) :
            k \in {<<"corp", "example">>, HostLit4, HostLit6},
            ip \in {Ip4Host, Ip6Host}}

FallbackFilters ==
    [ domain : {<<>>, <<(<<"blocked", "example">>)>>},
      geo_ip : BOOLEAN,
      geo_ip_code : {"CN"},
      ip_cidr : {NoneSeq, Some(<<(<<1, 2, 3>>)>>)} ]

DnsConfigs ==
    [ ipv6 : BOOLEAN,
      hosts : HostTables,
      nameserver : NameServerLists,
      default_nameserver : DefaultLists,
      fallback : FallbackLists,
      fallback_filter : FallbackFilters,
      nameserver_policy : PolicyTables ]

(***************************************************************************)
(* Resolver::make_clients and Resolver::new.  make_clients gives the ids   *)
(* of the clients it built (rv) and, for each, the resolver its Opts hold  *)
(* (opts); todo!() panics.  Resolver::new gives the Resolver (r), the      *)
(* bootstrap Resolver (default_resolver) and the Opts of every client.     *)
(***************************************************************************)
NoResolverRef == "None"

DefaultResolverRef == "default_resolver"

\* Mutant of make_clients: every client is handed the bootstrap Resolver,
\* the bootstrap Resolver's own clients included.
make_clients_all_bootstrapped(servers, resolver) ==
    IF \E i \in DOMAIN servers : servers[i].net \in {"https", "dhcp"}
    THEN [kind |-> "panic", rv |-> <<>>, opts |-> {}]
    ELSE LET built == SelectSeq(servers, LAMBDA n : n.builds)
         IN  [kind |-> "ok",
              rv |-> [i \in DOMAIN built |-> built[i].id],
              opts |-> {[id |-> built[i].id, r |-> DefaultResolverRef] :
                           i \in DOMAIN built}]

make_clients(servers, resolver) ==
    IF \E i \in DOMAIN servers : servers[i].net \in {"https", "dhcp"}
    THEN [kind |-> "panic", rv |-> <<>>, opts |-> {}]
    ELSE LET built == SelectSeq(servers, LAMBDA n : n.builds)
         IN  [kind |-> "ok",
              rv |-> [i \in DOMAIN built |-> built[i].id],
              opts |-> {[id |-> built[i].id, r |-> resolver] : i \in DOMAIN built}]

GeoIPFilter(code) == [kind |-> "geoip", code |-> code, prefix |-> <<>>]

IPNetFilter(prefix) == [kind |-> "ipnet", code |-> "", prefix |-> prefix]

DomainFilter(domains) == Range(domains)

NoResolver ==
    [ ipv6 |-> FALSE, hosts |-> NoneSet, main |-> <<>>, fallback |-> NoneSeq,
      fallback_domain_filters |-> NoneSeq, fallback_ip_filters |-> NoneSeq,
      policy |-> NoneSet ]

Resolver_new(c) ==
    LET dflt == make_clients(c.default_nameserver, NoResolverRef)
        main == make_clients(c.nameserver, DefaultResolverRef)
        fb == make_clients(c.fallback, DefaultResolverRef)
        pol == {[key |-> e.key,
                 made |-> make_clients(<<e.data>>, DefaultResolverRef)] :
                    e \in c.nameserver_policy}
        ff == c.fallback_filter
        r == [ ipv6 |-> c.ipv6,
               main |-> main.rv,
               hosts |-> c.hosts,
               fallback |-> IF Len(c.fallback) > 0 THEN Some(fb.rv) ELSE NoneSeq,
               fallback_domain_filters |->
                   IF Len(ff.domain) > 0
                   THEN Some(<<DomainFilter(ff.domain)>>)
                   ELSE NoneSeq,
               fallback_ip_filters |->
                   IF ff.ip_cidr.some \/ ff.geo_ip
                   THEN Some(<<GeoIPFilter(ff.geo_ip_code)>>
                             \o (IF ff.ip_cidr.some
                                 THEN [i \in DOMAIN ff.ip_cidr.v |->
                                          IPNetFilter(ff.ip_cidr.v[i])]
                                 ELSE <<>>))
                   ELSE NoneSeq,
               policy |->
                   IF c.nameserver_policy # {}
                   THEN Some({[key |-> e.key, data |-> e.made.rv] : e \in pol})
                   ELSE NoneSet ]
    IN  IF \/ "panic" \in {dflt.kind, main.kind, fb.kind}
           \/ \E e \in pol : e.made.kind = "panic"
        THEN [kind |-> "panic", r |-> NoResolver, default_resolver |-> NoResolver,
              opts |-> {}]
        ELSE [kind |-> "ok",
              r |-> r,
              default_resolver |-> [NoResolver EXCEPT !.main = dflt.rv],
              opts |-> dflt.opts \cup main.opts \cup fb.opts
                       \cup UNION {e.made.opts : e \in pol}]

\* The Resolvers that Resolver::new can build.
Configs ==
    {Resolver_new(c).r : c \in {d \in DnsConfigs : Resolver_new(d).kind = "ok"}}

(***************************************************************************)
(* The helpers of impl Resolver.                                           *)
(***************************************************************************)
is_ip_request(q) ==
    q.qclass = "IN" /\ (q.qtype = "A" \/ q.qtype = "AAAA")

RECURSIVE TrimDots(_)
TrimDots(name) ==
    IF name = <<>> THEN name
    ELSE IF Head(name) = "" THEN TrimDots(Tail(name))
    ELSE IF name[Len(name)] = "" THEN TrimDots(SubSeq(name, 1, Len(name) - 1))
    ELSE name

domain_name_of_message(q) == TrimDots(q.name)

ip_list_of_message(m) ==
    LET IsAddr(r) == r.rtype = "A" \/ r.rtype = "AAAA"
        kept == SelectSeq(m.answers, IsAddr)
    IN  [i \in 1..Len(kept) |-> kept[i].data]

match_policy(q) ==
    IF /\ cfg.fallback.some
       /\ cfg.fallback_domain_filters.some
       /\ cfg.policy.some
       /\ TrieMatches(cfg.policy.v, domain_name_of_message(q)) # {}
    THEN Some(TrieSearch(cfg.policy.v, domain_name_of_message(q)).data)
    ELSE NoneSeq

\* Mutant of should_only_query_fallback: the domain filters are not applied.
should_only_query_fallback_never(q) == FALSE

\* Mutant of should_only_query_fallback: the domain filters are applied
\* without testing that a fallback pool exists.
should_only_query_fallback_unguarded(q) ==
    /\ cfg.fallback_domain_filters.some
    /\ \E i \in DOMAIN cfg.fallback_domain_filters.v :
          DomainFilterApply(cfg.fallback_domain_filters.v[i],
                            domain_name_of_message(q))

should_only_query_fallback(q) ==
    /\ cfg.fallback.some
    /\ cfg.fallback_domain_filters.some
    /\ \E i \in DOMAIN cfg.fallback_domain_filters.v :
          DomainFilterApply(cfg.fallback_domain_filters.v[i],
                            domain_name_of_message(q))

should_ip_fallback(ip) ==
    /\ cfg.fallback_ip_filters.some
    /\ \E i \in DOMAIN cfg.fallback_ip_filters.v :
          IPFilterApply(cfg.fallback_ip_filters.v[i], ip)

(***************************************************************************)
(* lookup_ip and exchange.  exchange peeks the cache under the question's  *)
(* string form; nothing in the Resolver ever inserts into the cache.       *)
(***************************************************************************)
CacheKeys == DOMAIN lru_cache

exchange_cached(q) ==
    IF QueryToString(q) \in CacheKeys
    THEN Some(lru_cache[QueryToString(q)])
    ELSE [some |-> FALSE, v |-> RNone]

\* Mutant of lookup_ip: the list is returned without the is_empty test.
lookup_ip_unchecked(ex) ==
    IF ex.kind = "ok"
    THEN [kind |-> "ok", ips |-> ip_list_of_message(ex), err |-> ""]
    ELSE [kind |-> "err", ips |-> <<>>, err |-> ex.err]

lookup_ip(ex) ==
    IF ex.kind = "ok"
    THEN IF ip_list_of_message(ex) # <<>>
         THEN [kind |-> "ok", ips |-> ip_list_of_message(ex), err |-> ""]
         ELSE [kind |-> "err", ips |-> <<>>, err |-> "no record"]
    ELSE [kind |-> "err", ips |-> <<>>, err |-> ex.err]

(***************************************************************************)
(* ip_exchange and exchange_no_cache: the pool raced first, and what       *)
(* follows the end of a race ("fallback": race the fallback pool next,     *)
(* "return": hand the race's result back).                                 *)
(***************************************************************************)
ip_exchange_first(q) ==
    IF match_policy(q).some THEN "policy"
    ELSE IF should_only_query_fallback(q) THEN "fallback"
    ELSE "main"

exchange_no_cache(q) ==
    IF is_ip_request(q) THEN ip_exchange_first(q)
    ELSE IF match_policy(q).some THEN "policy"
    ELSE "main"

\* Mutant of MainAccepted: the first address is not checked against the
\* fallback IP filters.
MainAcceptedUnfiltered(res) ==
    /\ res.kind = "ok"
    /\ ip_list_of_message(res) # <<>>

\* Mutant of MainAccepted: a main response without addresses is accepted.
MainAcceptedEmpty(res) ==
    /\ res.kind = "ok"
    /\ \/ ip_list_of_message(res) = <<>>
       \/ ~should_ip_fallback(ip_list_of_message(res)[1])

MainAccepted(res) ==
    /\ res.kind = "ok"
    /\ ip_list_of_message(res) # <<>>
    /\ ~should_ip_fallback(ip_list_of_message(res)[1])

\* Mutant of ip_exchange_next: with a fallback pool, the fallback race is
\* awaited whatever the main race gave.
ip_exchange_next_await_fallback(q, pool, res) ==
    IF /\ is_ip_request(q)
       /\ pool = "main"
       /\ cfg.fallback.some
    THEN "fallback"
    ELSE "return"

ip_exchange_next(q, pool, res) ==
    IF /\ is_ip_request(q)
       /\ pool = "main"
       /\ cfg.fallback.some
       /\ ~MainAccepted(res)
    THEN "fallback"
    ELSE "return"

PoolClients(q, pool) ==
    CASE pool = "policy" -> match_policy(q).v
      [] pool = "fallback" -> cfg.fallback.v
      [] OTHER -> cfg.main

(***************************************************************************)
(* resolve, resolve_v4, resolve_v6.  The *_local part is what runs before  *)
(* lookup_ip (NoResult: go on to the lookup); the *_lookup part is the     *)
(* set of results the random choice over the looked-up list can give       *)
(* (choose() of an empty list is None, which unwrap() panics on).          *)
(***************************************************************************)
HostsSearch(host) ==
    IF cfg.hosts.some /\ TrieMatches(cfg.hosts.v, host) # {}
    THEN Some(TrieSearch(cfg.hosts.v, host).data)
    ELSE NoneIp

resolve_v4_local(host) ==
    IF HostsSearch(host).some
    THEN IF HostsSearch(host).v.fam = "v4" THEN Ok(HostsSearch(host).v) ELSE Panic
    ELSE IF parse_Ipv4Addr(host).some THEN Ok(parse_Ipv4Addr(host).v)
    ELSE NoResult

resolve_v4_lookup(lk) ==
    IF lk.kind = "ok"
    THEN IF lk.ips = <<>>
         THEN {Panic}
         ELSE {IF ip.fam = "v4" THEN Ok(ip) ELSE Panic : ip \in Range(lk.ips)}
    ELSE {Err(lk.err)}

\* Mutant of resolve_v6_local: the ipv6 flag is checked after the host table
\* and the literal.
resolve_v6_local_late(host) ==
    IF HostsSearch(host).some
    THEN IF HostsSearch(host).v.fam = "v6" THEN Ok(HostsSearch(host).v) ELSE Panic
    ELSE IF parse_Ipv6Addr(host).some THEN Ok(parse_Ipv6Addr(host).v)
    ELSE IF ~cfg.ipv6 THEN Err("ipv6 disabled")
    ELSE NoResult

resolve_v6_local(host) ==
    IF ~cfg.ipv6 THEN Err("ipv6 disabled")
    ELSE IF HostsSearch(host).some
    THEN IF HostsSearch(host).v.fam = "v6" THEN Ok(HostsSearch(host).v) ELSE Panic
    ELSE IF parse_Ipv6Addr(host).some THEN Ok(parse_Ipv6Addr(host).v)
    ELSE NoResult

resolve_v6_lookup(lk) ==
    IF lk.kind = "ok"
    THEN IF lk.ips = <<>>
         THEN {Panic}
         ELSE {IF ip.fam = "v6" THEN Ok(ip) ELSE Panic : ip \in Range(lk.ips)}
    ELSE {Err(lk.err)}

Ops == {"resolve", "resolve_v4", "resolve_v6"}

resolve(op) ==
    IF op = "resolve" THEN (IF cfg.ipv6 THEN "resolve_v6" ELSE "resolve_v4") ELSE op

ResolveLocal(op, host) ==
    IF resolve(op) = "resolve_v4" THEN resolve_v4_local(host)
    ELSE resolve_v6_local(host)

ResolveLookup(op, ex) ==
    IF resolve(op) = "resolve_v4" THEN resolve_v4_lookup(lookup_ip(ex))
    ELSE resolve_v6_lookup(lookup_ip(ex))

RecordType(op) == IF resolve(op) = "resolve_v4" THEN "A" ELSE "AAAA"

QueryOf(r) == Query(call[r].host, RecordType(call[r].op))

(***************************************************************************)
(* batch_exchange.  Each client's future first awaits the client's Mutex   *)
(* ("lock"), then runs exchange() holding it ("exch"), and ends "ok" or    *)
(* "err"; select_ok returns the first Ok, or the last Err once every       *)
(* future has failed, and the futures still pending are then dropped       *)
(* ("dropped"), which releases what they hold.  The sleep of BatchTimeout  *)
(* seconds runs beside select_ok under tokio::select!.  select_ok panics   *)
(* when it is given no future at all.                                      *)
(***************************************************************************)
SelectOkPanics(clients) == clients = <<>>

Racing(r) == pc[r] \in Pools

Pending(cs) == {c \in Clients : cs[c] \in {"lock", "exch"}}

PollLocks(lk, r, clients) ==
    [c \in Clients |-> IF c \in Range(clients) /\ lk[c] = 0 THEN r ELSE lk[c]]

\* Mutant of PollFutures: exchange() is called without taking the Mutex.
PollFuturesUnlocked(lk, cs, clients) ==
    [c \in Clients |-> IF c \in Range(clients) THEN "exch" ELSE cs[c]]

PollFutures(lk, cs, clients) ==
    [c \in Clients |->
        IF c \in Range(clients)
        THEN (IF lk[c] = 0 THEN "exch" ELSE "lock")
        ELSE cs[c]]

Exchanged(lk, clients) == {c \in Range(clients) : lk[c] = 0}

DropFutures(cs) ==
    [c \in Clients |-> IF c \in Pending(cs) THEN "dropped" ELSE cs[c]]

\* Mutant of ReleaseAll: the futures left behind keep their guards.
ReleaseAllLeaky(lk, r) == lk

ReleaseAll(lk, r) == [c \in Clients |-> IF lk[c] = r THEN 0 ELSE lk[c]]

\* Mutant of SleepElapsed: the sleep is half as long.
SleepElapsedEarly(t) == 2 * t >= BatchTimeout

SleepElapsed(t) == t >= BatchTimeout

\* Mutant of SelectOkErr: the first error ends the race (the first response
\* wins, not the first success).
SelectOkErrFirst(cs) == TRUE

SelectOkErr(cs) == Pending(cs) = {}

(***************************************************************************)
(* The race of request r ends with res (cs: its futures at that moment):   *)
(* ip_exchange either goes on to the fallback race in the same poll or     *)
(* returns, and resolve_v4 / resolve_v6 pick an address.  A fallback pool  *)
(* without clients makes select_ok panic as soon as that race is polled.   *)
(***************************************************************************)
EndRace(r, res, cs) ==
    LET lk == ReleaseAll(lock, r)
        cs1 == DropFutures(cs)
        toFallback == ip_exchange_next(QueryOf(r), pc[r], res) = "fallback"
    IN  /\ timer' = [timer EXCEPT ![r] = 0]
        /\ raceRes' =
              IF toFallback /\ SelectOkPanics(cfg.fallback.v)
              THEN [raceRes EXCEPT ![r][pc[r]] = res, ![r]["fallback"] = RPanic]
              ELSE [raceRes EXCEPT ![r][pc[r]] = res]
        /\ IF toFallback /\ SelectOkPanics(cfg.fallback.v)
           THEN /\ pc' = [pc EXCEPT ![r] = "done"]
                /\ result' = [result EXCEPT ![r] = Panic]
                /\ lock' = lk
                /\ cstate' = [cstate EXCEPT ![r] = cs1]
                /\ UNCHANGED <<called, exchanged>>
           ELSE IF toFallback
           THEN /\ pc' = [pc EXCEPT ![r] = "fallback"]
                /\ lock' = PollLocks(lk, r, cfg.fallback.v)
                /\ cstate' = [cstate EXCEPT
                                ![r] = PollFutures(lk, cs1, cfg.fallback.v)]
                /\ called' = [called EXCEPT
                                ![r] = @ \cup Exchanged(lk, cfg.fallback.v)]
                /\ UNCHANGED <<result, exchanged>>
           ELSE /\ pc' = [pc EXCEPT ![r] = "done"]
                /\ exchanged' = [exchanged EXCEPT ![r] = res]
                /\ lock' = lk
                /\ cstate' = [cstate EXCEPT ![r] = cs1]
                /\ \E fin \in ResolveLookup(call[r].op, res) :
                       result' = [result EXCEPT ![r] = fin]
                /\ UNCHANGED called
        /\ UNCHANGED <<cfg, conf, fetcher, files, env, lru_cache, call, peeked>>

(***************************************************************************)
(* Actions.                                                                *)
(***************************************************************************)
\* A caller invokes resolve / resolve_v4 / resolve_v6: everything up to the
\* first suspension, which is the first poll of the first race.  Requests
\* are numbered in the order of their calls (request r is the r-th call).
Resolve(r, op, host) ==
    /\ pc[r] = "idle"
    /\ \A x \in Reqs : x < r => pc[x] # "idle"
    /\ <<op, host>> \in env.calls[r]
    /\ Resolver_new(conf).kind = "ok"
    /\ call' = [call EXCEPT ![r] = [op |-> op, host |-> host]]
    /\ UNCHANGED <<cfg, conf, fetcher, files, env, lru_cache, timer>>
    /\ LET q == Query(host, RecordType(op))
           pool == exchange_no_cache(q)
       IN  IF ResolveLocal(op, host) # NoResult
           THEN /\ pc' = [pc EXCEPT ![r] = "done"]
                /\ result' = [result EXCEPT ![r] = ResolveLocal(op, host)]
                /\ UNCHANGED <<lock, cstate, called, peeked, exchanged,
                               raceRes>>
           ELSE IF exchange_cached(q).some
           THEN /\ pc' = [pc EXCEPT ![r] = "done"]
                /\ peeked' = [peeked EXCEPT ![r] = TRUE]
                /\ exchanged' = [exchanged EXCEPT ![r] = exchange_cached(q).v]
                /\ \E fin \in ResolveLookup(op, exchange_cached(q).v) :
                       result' = [result EXCEPT ![r] = fin]
                /\ UNCHANGED <<lock, cstate, called, raceRes>>
           ELSE IF SelectOkPanics(PoolClients(q, pool))
           THEN /\ pc' = [pc EXCEPT ![r] = "done"]
                /\ peeked' = [peeked EXCEPT ![r] = TRUE]
                /\ raceRes' = [raceRes EXCEPT ![r][pool] = RPanic]
                /\ result' = [result EXCEPT ![r] = Panic]
                /\ UNCHANGED <<lock, cstate, called, exchanged>>
           ELSE /\ pc' = [pc EXCEPT ![r] = pool]
                /\ peeked' = [peeked EXCEPT ![r] = TRUE]
                /\ lock' = PollLocks(lock, r, PoolClients(q, pool))
                /\ cstate' = [cstate EXCEPT
                     ![r] = PollFutures(lock, cstate[r], PoolClients(q, pool))]
                /\ called' = [called EXCEPT
                     ![r] = @ \cup Exchanged(lock, PoolClients(q, pool))]
                /\ UNCHANGED <<result, raceRes, exchanged>>

\* A future waiting for a client's Mutex gets it and calls exchange().
AcquireLock(r, c) ==
    /\ Racing(r)
    /\ cstate[r][c] = "lock"
    /\ lock[c] = 0
    /\ lock' = [lock EXCEPT ![c] = r]
    /\ cstate' = [cstate EXCEPT ![r][c] = "exch"]
    /\ called' = [called EXCEPT ![r] = @ \cup {c}]
    /\ UNCHANGED <<cfg, conf, fetcher, files, env, lru_cache, pc, call, timer, raceRes, peeked,
                   exchanged, result>>

\* Client c answers request r's query: select_ok returns it.
ClientOk(r, c, answers) ==
    /\ Racing(r)
    /\ cstate[r][c] = "exch"
    /\ answers \in env.answers
    /\ EndRace(r, ROk(c, answers), [cstate[r] EXCEPT ![c] = "ok"])

\* Mutant of ClientErr: the last failure does not end the race, which goes
\* on until the sleep completes.
ClientErrWaits(r, c) ==
    /\ Racing(r)
    /\ cstate[r][c] = "exch"
    /\ cstate' = [cstate EXCEPT ![r][c] = "err"]
    /\ lock' = [lock EXCEPT ![c] = 0]
    /\ UNCHANGED <<cfg, conf, fetcher, files, env, lru_cache, pc, call, timer,
                   raceRes, called, peeked, exchanged, result>>

\* Client c fails request r's query: select_ok goes on with the futures
\* left, and returns this error when none is.
ClientErr(r, c) ==
    /\ Racing(r)
    /\ cstate[r][c] = "exch"
    /\ LET cs == [cstate[r] EXCEPT ![c] = "err"]
       IN  IF SelectOkErr(cs)
           THEN EndRace(r, RErr(c, "io"), cs)
           ELSE /\ cstate' = [cstate EXCEPT ![r] = cs]
                /\ lock' = [lock EXCEPT ![c] = 0]
                /\ UNCHANGED <<cfg, conf, fetcher, files, env, lru_cache, pc, call, timer,
                               raceRes, called, peeked, exchanged, result>>

\* The sleep of request r's race completes.
Timeout(r) ==
    /\ Racing(r)
    /\ SleepElapsed(timer[r])
    /\ EndRace(r, ErrTimeout, cstate[r])

\* Time passes, up to the next sleep that completes.
Tick ==
    /\ \E r \in Reqs : Racing(r)
    /\ LET d == Min({TickStep} \cup
                    {BatchTimeout - timer[r] : r \in {x \in Reqs : Racing(x)}})
       IN  /\ d > 0
           /\ timer' = [r \in Reqs |->
                           IF Racing(r) THEN timer[r] + d ELSE timer[r]]
    /\ UNCHANGED <<cfg, conf, fetcher, files, env, lru_cache, lock, pc, call, cstate, raceRes,
                   called, peeked, exchanged, result>>

(***************************************************************************)
(* The provider Fetcher.  Contents are strings; md5 is kept as a tagged    *)
(* content (distinct contents have distinct digests here); the parser      *)
(* rejects the content "bad".  Time is whole seconds; initial() runs at    *)
(* the clock value MaxClock.                                               *)
(***************************************************************************)
Contents == {"c1", "c2", "bad"}

md5(content) == <<"md5", content>>

ZeroHash == <<"zero">>

parser(content) ==
    IF content = "bad"
    THEN [ok |-> FALSE, v |-> <<>>]
    ELSE [ok |-> TRUE, v |-> <<"parsed", content>>]

ReadErr == [ok |-> FALSE, v |-> ""]

ReadOk(content) == [ok |-> TRUE, v |-> content]

Vehicles ==
    [typ : {"File", "HTTP"}, read : {ReadErr} \cup {ReadOk(c) : c \in Contents}]

NoFile == [exists |-> FALSE, content |-> "", mtime |-> 0]

FileStates ==
    {NoFile}
    \cup [exists : {TRUE}, content : {"c1", "bad"}, mtime : 0..(MaxClock + 1)]

FetcherInner(updated_at, hash) == [updated_at |-> updated_at, hash |-> hash]

\* Fetcher::new.  Beside the struct's fields: called (how initial() ended),
\* proxies (what it returned), fire_immediately and ticks (the pull task's
\* local and the ticks it has seen) and updates (the values on_update was
\* invoked with).
Fetcher_new(interval, vehicle, on_update) ==
    [ interval |-> interval,
      vehicle |-> vehicle,
      thread_handle |-> "None",
      ticker |-> interval # 0,
      inner |-> FetcherInner(0, ZeroHash),
      on_update |-> on_update,
      called |-> "none",
      proxies |-> <<>>,
      fire_immediately |-> FALSE,
      ticks |-> 0,
      updates |-> <<>> ]

\* No Fetcher was made: the value of fetcher while the Resolver is modelled.
NoFetcher == Fetcher_new(0, [typ |-> "File", read |-> ReadErr], FALSE)

\* initial(): the Fetcher and the file it leaves, f.called telling how it
\* ended ("ok", "err", or "panic" for a modification time in the future).
initial(f, file, now) ==
    LET is_local == file.exists
        rd == f.vehicle.read
        inner1 == IF is_local THEN [f.inner EXCEPT !.updated_at = file.mtime]
                  ELSE f.inner
        immediately_update == is_local /\ now - file.mtime > f.interval
        content == IF is_local THEN file.content ELSE rd.v
        first == parser(content)
        proxies == IF first.ok THEN first ELSE parser(rd.v)
        written == f.vehicle.typ # "File" /\ ~is_local
        file1 == IF written
                 THEN [exists |-> TRUE, content |-> content, mtime |-> now]
                 ELSE file
        f1 == [f EXCEPT !.inner = inner1]
    IN  IF is_local /\ file.mtime > now
        THEN [f |-> [f1 EXCEPT !.called = "panic"], file |-> file]
        ELSE IF \/ ~is_local /\ ~rd.ok
                \/ ~first.ok /\ (~is_local \/ ~rd.ok)
                \/ ~proxies.ok
        THEN [f |-> [f1 EXCEPT !.called = "err"], file |-> file]
        ELSE [f |-> [f1 EXCEPT
                       !.called = "ok",
                       !.proxies = proxies.v,
                       !.inner = [inner1 EXCEPT !.hash = md5(content)],
                       !.ticker = FALSE,
                       !.thread_handle = IF f.ticker THEN "running" ELSE "None",
                       !.fire_immediately = f.ticker /\ immediately_update],
              file |-> file1]

\* update_inner(): its return ("ok" with elm and same, "err" or "panic"),
\* the FetcherInner and the file it leaves.  Mutex::blocking_lock panics
\* when it is called on a thread that drives a runtime's tasks.
update_inner(this, vehicle, file, now, in_runtime) ==
    LET rd == vehicle.read
        proxies == parser(rd.v)
        hash == md5(rd.v)
        fail(t, fl) == [kind |-> "err", elm |-> <<>>, same |-> FALSE,
                        inner |-> t, file |-> fl]
        done(t, fl) == [kind |-> "ok", elm |-> proxies.v, same |-> FALSE,
                        inner |-> t, file |-> fl]
    IN  IF in_runtime
        THEN [kind |-> "panic", elm |-> <<>>, same |-> FALSE,
              inner |-> this, file |-> file]
        ELSE IF ~rd.ok \/ ~proxies.ok THEN fail(this, file)
        ELSE IF hash = this.hash
        THEN IF file.exists
             THEN done([this EXCEPT !.updated_at = now],
                       [file EXCEPT !.mtime = now])
             ELSE fail([this EXCEPT !.updated_at = now], file)
        ELSE IF vehicle.typ # "File"
        THEN done(this, [exists |-> TRUE, content |-> rd.v, mtime |-> now])
        ELSE done(FetcherInner(now, hash), file)

\* A caller awaits initial() on a new Fetcher.
Initial ==
    /\ fetcher.called = "none"
    /\ fetcher' = initial(fetcher, files, MaxClock).f
    /\ files' = initial(fetcher, files, MaxClock).file
    /\ UNCHANGED <<cfg, conf, env, lru_cache, lock, pc, call, cstate, timer,
                   raceRes, called, peeked, exchanged, result>>

\* One turn of the task spawned by pull_loop: ticker.tick() completes, then
\* update() runs if fire_immediately is set.  The task runs under
\* tokio::spawn, so update_inner is called inside the runtime.
PullLoop ==
    /\ fetcher.thread_handle = "running"
    /\ fetcher.ticks < MaxTicks
    /\ LET u == update_inner(fetcher.inner, fetcher.vehicle, files, MaxClock, TRUE)
           f1 == [fetcher EXCEPT !.ticks = @ + 1]
       IN  IF ~fetcher.fire_immediately
           THEN /\ fetcher' = f1
                /\ UNCHANGED files
           ELSE IF u.kind = "panic"
           THEN /\ fetcher' = [f1 EXCEPT !.thread_handle = "panicked"]
                /\ UNCHANGED files
           ELSE /\ files' = u.file
                /\ fetcher' =
                     [f1 EXCEPT
                        !.inner = u.inner,
                        !.on_update = @ /\ (u.kind # "ok" \/ u.same),
                        !.updates = IF u.kind = "ok" /\ ~u.same /\ fetcher.on_update
                                    THEN Append(@, u.elm) ELSE @]
    /\ UNCHANGED <<cfg, conf, env, lru_cache, lock, pc, call, cstate, timer,
                   raceRes, called, peeked, exchanged, result>>

\* One caller that may make every call, on any configuration and with any
\* upstream answer; or every caller at once, each making the calls of
\* ConcurrentCalls, on the configurations without host table, policy and
\* IPv6, the upstreams sending the answers of ConcurrentAnswers.
SingleCaller ==
    [calls |-> [r \in Reqs |-> IF r = 1 THEN Ops \X Hosts ELSE {}],
     answers |-> AnswerLists]

ConcurrentCalls == {<<"resolve_v4", HostBlocked>>}

ConcurrentAnswers == {<<RecCNAME, RecA(Ip4Good)>>}

ConcurrentCallers ==
    [calls |-> [r \in Reqs |-> ConcurrentCalls],
     answers |-> ConcurrentAnswers]

ConcurrentConfigs ==
    {c \in Configs : /\ ~c.ipv6
                     /\ ~c.hosts.some
                     /\ ~c.policy.some
                     /\ c.main # <<>>
                     /\ c.fallback_ip_filters.some
                     /\ c.fallback_domain_filters.some => c.fallback.some}

Init ==
    /\ conf \in DnsConfigs
    /\ cfg = Resolver_new(conf).r
    /\ fetcher = NoFetcher
    /\ files = NoFile
    /\ \/ env = SingleCaller
       \/ /\ cfg \in ConcurrentConfigs
          /\ ~conf.fallback_filter.geo_ip
          /\ env = ConcurrentCallers
    /\ lru_cache = <<>>
    /\ lock = [c \in Clients |-> 0]
    /\ pc = [r \in Reqs |-> "idle"]
    /\ call = [r \in Reqs |-> [op |-> "", host |-> <<>>]]
    /\ cstate = [r \in Reqs |-> [c \in Clients |-> "idle"]]
    /\ timer = [r \in Reqs |-> 0]
    /\ raceRes = [r \in Reqs |-> [p \in Pools |-> RNone]]
    /\ called = [r \in Reqs |-> {}]
    /\ peeked = [r \in Reqs |-> FALSE]
    /\ exchanged = [r \in Reqs |-> RNone]
    /\ result = [r \in Reqs |-> NoResult]

Next ==
    \/ \E r \in Reqs, op \in Ops, host \in Hosts : Resolve(r, op, host)
    \/ \E r \in Reqs, c \in Clients : AcquireLock(r, c)
    \/ \E r \in Reqs, c \in Clients, answers \in AnswerLists : ClientOk(r, c, answers)
    \/ \E r \in Reqs, c \in Clients : ClientErr(r, c)
    \/ \E r \in Reqs : Timeout(r)
    \/ Tick

Spec == Init /\ [][Next]_vars

\* The Resolver under concurrent callers, with what the runtime guarantees:
\* time passes, and a sleep that has completed wakes its select!.  No
\* client is required ever to respond.
ConcurrentInit == Init /\ env = ConcurrentCallers

Fairness ==
    /\ WF_vars(Tick)
    /\ \A r \in Reqs : WF_vars(Timeout(r))

FairSpec == ConcurrentInit /\ [][Next]_vars /\ Fairness

(***************************************************************************)
(* The Fetcher on its own: any interval, vehicle, callback and local file, *)
(* beside a Resolver that nobody calls.                                    *)
(***************************************************************************)
NoCaller == [calls |-> [r \in Reqs |-> {}], answers |-> {}]

FetcherInit ==
    /\ conf \in {c \in DnsConfigs :
                    /\ ~c.ipv6 /\ ~c.hosts.some /\ c.fallback = <<>>
                    /\ c.nameserver_policy = {}
                    /\ c.fallback_filter.domain = <<>>
                    /\ ~c.fallback_filter.ip_cidr.some
                    /\ Resolver_new(c).r.main = MainClients}
    /\ cfg = Resolver_new(conf).r
    /\ env = NoCaller
    /\ fetcher \in {Fetcher_new(i, v, u) :
                       i \in 0..MaxInterval, v \in Vehicles, u \in BOOLEAN}
    /\ files \in FileStates
    /\ lru_cache = <<>>
    /\ lock = [c \in Clients |-> 0]
    /\ pc = [r \in Reqs |-> "idle"]
    /\ call = [r \in Reqs |-> [op |-> "", host |-> <<>>]]
    /\ cstate = [r \in Reqs |-> [c \in Clients |-> "idle"]]
    /\ timer = [r \in Reqs |-> 0]
    /\ raceRes = [r \in Reqs |-> [p \in Pools |-> RNone]]
    /\ called = [r \in Reqs |-> {}]
    /\ peeked = [r \in Reqs |-> FALSE]
    /\ exchanged = [r \in Reqs |-> RNone]
    /\ result = [r \in Reqs |-> NoResult]

FetcherNext == Initial \/ PullLoop

FetcherSpec == FetcherInit /\ [][FetcherNext]_vars

(***************************************************************************)
(* What the claims speak of.                                               *)
(***************************************************************************)
Started(r) == pc[r] # "idle"

Done(r) == pc[r] = "done"

\* The policy trie has a suffix match for the request's domain.
PolicyHit(r) ==
    /\ cfg.policy.some
    /\ TrieMatches(cfg.policy.v, domain_name_of_message(QueryOf(r))) # {}

\* Some fallback domain filter matches the request's domain.
DomainFiltered(r) ==
    /\ cfg.fallback_domain_filters.some
    /\ \E i \in DOMAIN cfg.fallback_domain_filters.v :
          DomainFilterApply(cfg.fallback_domain_filters.v[i],
                            domain_name_of_message(QueryOf(r)))

\* The main race failed, or answered with a first address that a fallback
\* IP filter matches.
MainSuspect(res) ==
    \/ res.kind = "err"
    \/ /\ res.kind = "ok"
       /\ ip_list_of_message(res) # <<>>
       /\ cfg.fallback_ip_filters.some
       /\ \E i \in DOMAIN cfg.fallback_ip_filters.v :
             IPFilterApply(cfg.fallback_ip_filters.v[i],
                           ip_list_of_message(res)[1])

PoolOf(c) ==
    IF c \in Range(MainClients) THEN "main"
    ELSE IF c \in Range(FallbackClients) THEN "fallback"
    ELSE "policy"

ClientsOf(pool) == {c \in Clients : PoolOf(c) = pool}

\* C1: with a fallback pool, no policy match and no domain-filter match, a
\* main race that failed or whose first address matches a fallback IP
\* filter is followed by the fallback race, and what ip_exchange returns
\* (and resolve* builds its result from) is the fallback race's result.
C1_SuspectMainYieldsFallback ==
    \A r \in Reqs :
        ( /\ Done(r)
          /\ cfg.fallback.some
          /\ ~PolicyHit(r)
          /\ ~DomainFiltered(r)
          /\ MainSuspect(raceRes[r]["main"]) )
        => /\ raceRes[r]["fallback"] # RNone
           /\ exchanged[r] = raceRes[r]["fallback"]
           /\ result[r] \in ResolveLookup(call[r].op, raceRes[r]["fallback"])

\* C1 witness: main answered the poisoned 1.2.3.4, fallback answered
\* 5.6.7.8, and the caller got 5.6.7.8.
C1_Witness ==
    \E r \in Reqs :
        /\ Done(r)
        /\ cfg.fallback.some /\ ~PolicyHit(r) /\ ~DomainFiltered(r)
        /\ raceRes[r]["main"].kind = "ok"
        /\ raceRes[r]["main"].answers = <<RecA(Ip4Poison)>>
        /\ raceRes[r]["fallback"].kind = "ok"
        /\ result[r] = Ok(Ip4Good)

\* C2: whenever the policy trie has a suffix match for the queried domain,
\* whatever else is configured, only clients of the policy pool receive an
\* exchange call and the result returned is the policy race's.
C2_PolicyOnlyQueriesPolicyPool ==
    \A r \in Reqs :
        (Started(r) /\ peeked[r] /\ PolicyHit(r))
        => /\ called[r] \subseteq ClientsOf("policy")
           /\ Done(r) => exchanged[r] = raceRes[r]["policy"]

\* C3: with a fallback pool, no policy match and a matching fallback domain
\* filter, no client of the main pool ever receives an exchange call: the
\* query goes to the fallback pool only.
C3_DomainFilteredSkipsMain ==
    \A r \in Reqs :
        ( /\ Started(r)
          /\ cfg.fallback.some
          /\ ~PolicyHit(r)
          /\ DomainFiltered(r) )
        => /\ called[r] \subseteq ClientsOf("fallback")
           /\ raceRes[r]["main"] = RNone
           /\ Done(r) /\ peeked[r] => exchanged[r] = raceRes[r]["fallback"]

\* C3 witness: a domain-filtered request that was answered by the fallback
\* client.
C3_Witness ==
    \E r \in Reqs :
        /\ Done(r)
        /\ cfg.fallback.some /\ ~PolicyHit(r) /\ DomainFiltered(r)
        /\ called[r] = ClientsOf("fallback")
        /\ result[r].kind = "ok"

\* C4: once a query has succeeded through exchange, an identical query made
\* afterwards returns the same message and calls no client.
C4_CacheIdempotence ==
    [][ \A r, o \in Reqs :
          ( /\ r # o
            /\ Done(o) /\ exchanged[o].kind = "ok" /\ called[o] # {}
            /\ pc[r] = "idle" /\ pc'[r] # "idle"
            /\ call'[r] = call[o] )
          => /\ called'[r] = {}
             /\ exchanged'[r] = exchanged[o] ]_vars

\* C5: batch_exchange returns the first success, not the first response: a
\* race in which a client has succeeded has ended in success with that
\* client's response, no second client succeeds, and a race ends with a
\* client's error only when every client of the pool has failed.
C5_FirstSuccessWins ==
    \A r \in Reqs : \A p \in Pools :
        /\ raceRes[r][p].kind = "ok"
           => /\ raceRes[r][p].from \in ClientsOf(p)
              /\ cstate[r][raceRes[r][p].from] = "ok"
        /\ \A c \in ClientsOf(p) :
              cstate[r][c] = "ok"
              => raceRes[r][p].kind = "ok" /\ raceRes[r][p].from = c
        /\ (raceRes[r][p].kind = "err" /\ raceRes[r][p] # ErrTimeout)
           => \A c \in ClientsOf(p) : cstate[r][c] = "err"

\* C5 witness: m1 failed first, m2 succeeded later, and the main race
\* returned m2's response.
C5_Witness ==
    \E r \in Reqs :
        /\ cstate[r]["m1"] = "err"
        /\ cstate[r]["m2"] = "ok"
        /\ raceRes[r]["main"].kind = "ok"
        /\ raceRes[r]["main"].from = "m2"

\* No client of request r's running race has answered or failed.
Silent(r) == \A c \in ClientsOf(pc[r]) : cstate[r][c] \in {"lock", "exch"}

\* C6: a race in which no client responds ends exactly when 10 seconds
\* have passed since it started, with the timeout error: not before, and
\* time does not pass beyond the 10 seconds with the race still running;
\* the one sleep covers the whole race, the wait for a client's lock
\* included.
C6_TimeoutAtTenSeconds ==
    /\ [](\A r \in Reqs : timer[r] <= BatchTimeout)
    /\ [][ \A r \in Reqs :
             ( /\ Racing(r) /\ Silent(r)
               /\ raceRes'[r][pc[r]] # RNone
               /\ \A c \in ClientsOf(pc[r]) : cstate'[r][c] = "dropped" )
             => /\ timer[r] = BatchTimeout
                /\ raceRes'[r][pc[r]] = ErrTimeout ]_vars
    /\ [][ \A r \in Reqs :
             (Racing(r) /\ timer[r] = BatchTimeout) => timer'[r] <= timer[r] ]_vars

\* C6 witness: a race timed out while one of its clients was still waiting
\* for the client's lock and none had responded.
C6_Witness ==
    \E r, o \in Reqs :
        /\ raceRes[r]["main"] = ErrTimeout
        /\ \A c \in ClientsOf("main") : cstate[r][c] = "dropped"
        /\ r # o
        /\ \E c \in ClientsOf("main") : cstate[o][c] = "exch"

\* C7: a client has at most one exchange in flight, that of the request
\* holding its lock; the others that selected it wait.
C7_OneExchangePerClient ==
    \A c \in Clients :
        /\ Cardinality({r \in Reqs : cstate[r][c] = "exch"}) <= 1
        /\ \A r \in Reqs : cstate[r][c] = "exch" <=> lock[c] = r

\* C7 witness: two requests selected the same client; one exchanges on it,
\* the other waits for it.
C7_Witness ==
    \E c \in Clients : \E r, o \in Reqs :
        /\ cstate[r][c] = "exch"
        /\ cstate[o][c] = "lock"

\* C8: whatever the upstream answered, mixed A and AAAA records included,
\* resolve_v4 ends in an IPv4 address and resolve_v6 in an IPv6 address
\* (or in an error): a record of the other family is never selected.
C8_FamilyInvariant ==
    \A r \in Reqs :
        (Done(r) /\ exchanged[r].kind = "ok")
        => /\ result[r].kind \in {"ok", "err"}
           /\ result[r].kind = "ok"
              => result[r].ip.fam =
                   (IF resolve(call[r].op) = "resolve_v4" THEN "v4" ELSE "v6")

\* C9: with ipv6 = false, resolve_v6 fails with "ipv6 disabled" for every
\* host, host-table entries and literals included, and calls no client.
C9_Ipv6Disabled ==
    \A r \in Reqs :
        (Started(r) /\ ~cfg.ipv6 /\ call[r].op = "resolve_v6")
        => /\ Done(r)
           /\ result[r] = Err("ipv6 disabled")
           /\ called[r] = {}
           /\ ~peeked[r]

\* C9 witness: resolve_v6 of the literal "::1", which the host table maps to
\* an IPv6 address, on a Resolver with ipv6 = false.
C9_Witness ==
    \E r \in Reqs :
        /\ Done(r)
        /\ ~cfg.ipv6
        /\ call[r] = [op |-> "resolve_v6", host |-> HostLit6]
        /\ HostsSearch(HostLit6) = Some(Ip6Host)
        /\ result[r] = Err("ipv6 disabled")

\* The address family request r asks for, and the literal parse for it.
FamilyOf(r) == IF resolve(call[r].op) = "resolve_v4" THEN "v4" ELSE "v6"

ParseLiteral(r) ==
    IF FamilyOf(r) = "v4" THEN parse_Ipv4Addr(call[r].host)
    ELSE parse_Ipv6Addr(call[r].host)

TableHit(r) ==
    /\ HostsSearch(call[r].host).some
    /\ HostsSearch(call[r].host).v.fam = FamilyOf(r)

\* C10: resolve_v4 / resolve_v6 (ipv6 enabled for v6) return the host-table
\* address when the table holds an entry of the requested family for the
\* host, and otherwise the parsed literal when the host is a literal of the
\* requested family; in both cases with no client exchange and no cache
\* access.
C10_LocalShortCircuit ==
    \A r \in Reqs :
        (Started(r) /\ (FamilyOf(r) = "v6" => cfg.ipv6))
        => /\ TableHit(r)
              => /\ Done(r)
                 /\ result[r] = Ok(HostsSearch(call[r].host).v)
                 /\ called[r] = {} /\ ~peeked[r]
           /\ (~TableHit(r) /\ ParseLiteral(r).some)
              => /\ Done(r)
                 /\ result[r] = Ok(ParseLiteral(r).v)
                 /\ called[r] = {} /\ ~peeked[r]

\* C11: lookup_ip never succeeds with an empty address list: a request
\* whose exchange succeeded with a response holding no A/AAAA record ends
\* in the "no record" error, and whenever lookup_ip is Ok on what exchange
\* returned, the list holds at least one address.
C11_NoEmptySuccess ==
    \A r \in Reqs :
        (Done(r) /\ peeked[r] /\ exchanged[r] # RNone)
        => /\ lookup_ip(exchanged[r]).kind = "ok"
              => Len(lookup_ip(exchanged[r]).ips) >= 1
           /\ (exchanged[r].kind = "ok" /\ ip_list_of_message(exchanged[r]) = <<>>)
              => /\ lookup_ip(exchanged[r]) =
                       [kind |-> "err", ips |-> <<>>, err |-> "no record"]
                 /\ result[r] = Err("no record")

\* C11 witness: a client answered with an empty answer section, exchange
\* returned that response and the caller got "no record".
C11_Witness ==
    \E r \in Reqs :
        /\ Done(r)
        /\ exchanged[r].kind = "ok"
        /\ exchanged[r].answers = <<>>
        /\ result[r] = Err("no record")

\* The pool that request r's query selects first.
SelectedPool(r) == PoolClients(QueryOf(r), exchange_no_cache(QueryOf(r)))

\* C12: batch_exchange over an empty client set returns an error at once:
\* a request whose selected pool is empty is finished in the step that
\* reaches batch_exchange, with a failure value (no wait for the timeout,
\* no hang, no abort).
C12_EmptyPoolFailsFast ==
    \A r \in Reqs :
        (Started(r) /\ peeked[r] /\ SelectedPool(r) = <<>>)
        => /\ Done(r)
           /\ result[r].kind = "err"

\* C13: a Fetcher with a non-zero interval and an on_update callback, whose
\* initial() succeeded and whose vehicle delivers a content the parser
\* accepts, has invoked on_update with the parser's output once its pull
\* task has got through a tick of the interval, whatever the age of the
\* local copy was at initial() time.
C13_UpdateOnTick ==
    ( /\ fetcher.called = "ok"
      /\ fetcher.interval # 0
      /\ fetcher.on_update \/ fetcher.updates # <<>>
      /\ fetcher.vehicle.read.ok
      /\ parser(fetcher.vehicle.read.v).ok
      /\ fetcher.ticks >= 1 )
    => /\ fetcher.updates # <<>>
       /\ fetcher.updates[1] = parser(fetcher.vehicle.read.v).v

\* The main race succeeded with a first address that no fallback IP filter
\* matches.
MainClean(res) ==
    /\ res.kind = "ok"
    /\ ip_list_of_message(res) # <<>>
    /\ ~ ( /\ cfg.fallback_ip_filters.some
           /\ \E i \in DOMAIN cfg.fallback_ip_filters.v :
                 IPFilterApply(cfg.fallback_ip_filters.v[i],
                               ip_list_of_message(res)[1]) )

\* C14: with a fallback pool, no policy match and no domain-filter match, a
\* main race that succeeded with a first address matching no fallback IP
\* filter ends the request at once with the main result: the request does
\* not wait for any fallback client, and what is returned is the main
\* race's response, never the fallback's.
C14_CleanMainReturnsMain ==
    \A r \in Reqs :
        ( /\ Started(r)
          /\ cfg.fallback.some
          /\ ~PolicyHit(r)
          /\ ~DomainFiltered(r)
          /\ MainClean(raceRes[r]["main"]) )
        => /\ Done(r)
           /\ exchanged[r] = raceRes[r]["main"]
           /\ result[r] \in ResolveLookup(call[r].op, raceRes[r]["main"])

\* C14 witness: main answered 5.6.7.8 on a Resolver with a fallback pool and
\* IP filters, the caller got 5.6.7.8 and no fallback client had answered.
C14_Witness ==
    \E r \in Reqs :
        /\ Done(r)
        /\ cfg.fallback.some /\ cfg.fallback_ip_filters.some
        /\ ~PolicyHit(r) /\ ~DomainFiltered(r)
        /\ MainClean(raceRes[r]["main"])
        /\ raceRes[r]["fallback"] = RNone
        /\ result[r] = Ok(Ip4Good)

\* C15: with a fallback pool, no policy match and no domain-filter match,
\* the fallback race is started together with the main race: while the
\* main race of such a request is running, every fallback client's future
\* has been polled too (it waits for the client's lock or is exchanging).
C15_FallbackStartedWithMain ==
    \A r \in Reqs :
        ( /\ pc[r] = "main"
          /\ cfg.fallback.some
          /\ ~PolicyHit(r)
          /\ ~DomainFiltered(r) )
        => \A c \in Range(cfg.fallback.v) : cstate[r][c] \in {"lock", "exch"}

\* C16: without a fallback pool (and with no policy match) only clients of
\* the main pool are queried, no other race is run, and whenever the main
\* race has a result, success or failure, the request ends with exactly
\* that result: fallback domain filters and fallback IP filters change
\* nothing, a first address matching an IP filter included.
C16_NoFallbackReturnsMain ==
    \A r \in Reqs :
        ( /\ Started(r)
          /\ peeked[r]
          /\ ~cfg.fallback.some
          /\ ~PolicyHit(r) )
        => /\ called[r] \subseteq ClientsOf("main")
           /\ raceRes[r]["fallback"] = RNone
           /\ raceRes[r]["policy"] = RNone
           /\ raceRes[r]["main"].kind \in {"ok", "err"}
              => /\ Done(r)
                 /\ exchanged[r] = raceRes[r]["main"]
                 /\ result[r] \in ResolveLookup(call[r].op, raceRes[r]["main"])

\* C16 witness: no fallback pool, domain and IP filters configured, a
\* domain the domain filter matches, main answered the filtered 1.2.3.4
\* and the caller got 1.2.3.4.
C16_Witness ==
    \E r \in Reqs :
        /\ Done(r)
        /\ ~cfg.fallback.some /\ ~PolicyHit(r)
        /\ DomainFiltered(r)
        /\ MainSuspect(raceRes[r]["main"])
        /\ result[r] = Ok(Ip4Poison)

\* C17: when every client of a raced pool has failed, the race has ended,
\* at the last of the failures, with the error of one of those clients:
\* not with the timeout error, not with a success, and a race is never
\* left running (waiting for the sleep) with no client pending.
C17_AllFailedIsUpstreamError ==
    \A r \in Reqs :
        /\ Racing(r) => \E c \in ClientsOf(pc[r]) : cstate[r][c] \in {"lock", "exch"}
        /\ \A p \in Pools :
              (\A c \in ClientsOf(p) : cstate[r][c] = "err")
              => /\ raceRes[r][p].kind = "err"
                 /\ raceRes[r][p] # ErrTimeout
                 /\ raceRes[r][p].from \in ClientsOf(p)
                 /\ raceRes[r][p] = RErr(raceRes[r][p].from, "io")

\* C17 witness: m1 and then m2 failed, and the main race returned m2's
\* error.
C17_Witness ==
    \E r \in Reqs :
        /\ cstate[r]["m1"] = "err"
        /\ cstate[r]["m2"] = "err"
        /\ raceRes[r]["main"] = RErr("m2", "io")

\* The host table holds an entry for request r's host, of the family that
\* was not asked for.
OtherFamilyHit(r) ==
    /\ HostsSearch(call[r].host).some
    /\ HostsSearch(call[r].host).v.fam # FamilyOf(r)

\* C18: when the host table's entry for the host is of the other family,
\* resolve_v4 / resolve_v6 (ipv6 enabled for v6) neither return that entry
\* nor abort: a literal of the requested family is returned, and any other
\* host goes on to the lookup (exchange is reached).
C18_OtherFamilyEntrySkipped ==
    \A r \in Reqs :
        ( /\ Started(r)
          /\ FamilyOf(r) = "v6" => cfg.ipv6
          /\ OtherFamilyHit(r) )
        => /\ result[r].kind # "panic"
           /\ result[r] # Ok(HostsSearch(call[r].host).v)
           /\ ParseLiteral(r).some => result[r] = Ok(ParseLiteral(r).v)
           /\ ~ParseLiteral(r).some => peeked[r]

\* The clients of a server list whose construction succeeds, in the order
\* of the list (a transport that is not supported fails construction).
Constructible(servers) ==
    LET good == SelectSeq(servers,
                          LAMBDA n : n.builds /\ n.net \notin {"https", "dhcp"})
    IN  [i \in DOMAIN good |-> good[i].id]

\* C19: make_clients is best-effort per client (it returns the clients
\* whose construction succeeded, in configuration order, and a failed one
\* does not abort the others), and Resolver::new fails rather than yield a
\* Resolver whose main pool is empty.
C19_BestEffortPools ==
    /\ make_clients(conf.nameserver, DefaultResolverRef).kind = "ok"
    /\ make_clients(conf.nameserver, DefaultResolverRef).rv
         = Constructible(conf.nameserver)
    /\ Resolver_new(conf).kind = "ok" => cfg.main # <<>>

\* The clients of every pool of a Resolver.
PoolIds(res) ==
    Range(res.main) \cup Range(res.fallback.v)
    \cup UNION {Range(e.data) : e \in res.policy.v}

SelfResolverRef == "self"

\* The Resolver a client's reference stands for, in what Resolver::new built.
ResolverAt(n, ref) == IF ref = DefaultResolverRef THEN n.default_resolver ELSE n.r

\* How deep resolving a client's own endpoint can nest when the client holds
\* ref: nothing without a resolver, otherwise one resolution by that
\* Resolver, plus what its own clients need (cut off at fuel levels).
RECURSIVE NestingDepth(_, _, _)
NestingDepth(n, ref, fuel) ==
    IF ref = NoResolverRef \/ fuel = 0
    THEN 0
    ELSE LET below == {NestingDepth(n, o.r, fuel - 1) :
                         o \in {x \in n.opts : x.id \in PoolIds(ResolverAt(n, ref))}}
         IN  1 + (IF below = {} THEN 0
                  ELSE CHOOSE d \in below : \A e \in below : e <= d)

\* C20: the bootstrap Resolver has no hosts, no policy, no fallback and no
\* filters, and its clients hold no resolver; every client of the main,
\* fallback and policy pools holds the bootstrap Resolver, never the
\* Resolver being built; so resolving a client's endpoint nests one level
\* of resolution at most.
C20_BootstrapAcyclic ==
    LET n == Resolver_new(conf)
    IN  n.kind = "ok"
        => /\ n.default_resolver = [NoResolver EXCEPT !.main = n.default_resolver.main]
           /\ \A c \in PoolIds(n.default_resolver) \cup PoolIds(n.r) :
                 \E o \in n.opts : o.id = c
           /\ \A o \in n.opts :
                 /\ o.id \in PoolIds(n.default_resolver) => o.r = NoResolverRef
                 /\ o.id \in PoolIds(n.r) => o.r = DefaultResolverRef
                 /\ o.r # SelfResolverRef
                 /\ NestingDepth(n, o.r, MaxNesting) <= 1

\* C20 witness: a Resolver built with main, fallback and policy clients,
\* each holding the bootstrap Resolver, whose client holds none; the
\* Resolver has been used for a lookup.
C20_Witness ==
    LET n == Resolver_new(conf)
    IN  /\ n.kind = "ok"
        /\ cfg.main = MainClients
        /\ cfg.fallback = Some(FallbackClients)
        /\ cfg.policy.some
        /\ {[id |-> "m1", r |-> DefaultResolverRef],
            [id |-> "f1", r |-> DefaultResolverRef],
            [id |-> "p1", r |-> DefaultResolverRef],
            [id |-> "d1", r |-> NoResolverRef]} \subseteq n.opts
        /\ \E r \in Reqs : Done(r) /\ called[r] # {}

\* The addresses the fallback IP filters are asked about.
Addresses == {Ip4Good, Ip4Poison, Ip4Host, Ip4Geo, Ip6Good, Ip6Host}

\* ip lies in one of the CIDR ranges of fallback_filter.ip_cidr.
InConfiguredCidr(ip) ==
    /\ conf.fallback_filter.ip_cidr.some
    /\ \E i \in DOMAIN conf.fallback_filter.ip_cidr.v :
          IPFilterApply(IPNetFilter(conf.fallback_filter.ip_cidr.v[i]), ip)

\* The Resolver holds a geo-IP filter among its fallback IP filters.
HasGeoIPFilter ==
    /\ cfg.fallback_ip_filters.some
    /\ \E i \in DOMAIN cfg.fallback_ip_filters.v :
          cfg.fallback_ip_filters.v[i].kind = "geoip"

\* C21: the fallback IP filters that Resolver::new built hold a geo-IP
\* filter exactly when fallback_filter.geo_ip is enabled; with geo_ip
\* disabled and ip_cidr configured, should_ip_fallback is true of an
\* address exactly when it lies in a configured CIDR range.
C21_GeoFilterIffEnabled ==
    Resolver_new(conf).kind = "ok"
    => /\ HasGeoIPFilter <=> conf.fallback_filter.geo_ip
       /\ (~conf.fallback_filter.geo_ip /\ conf.fallback_filter.ip_cidr.some)
          => \A ip \in Addresses :
                should_ip_fallback(ip) <=> InConfiguredCidr(ip)

\* The main race of request r succeeded with a response that holds no
\* A/AAAA record.
MainEmpty(r) ==
    /\ raceRes[r]["main"].kind = "ok"
    /\ ip_list_of_message(raceRes[r]["main"]) = <<>>

\* C22: with a fallback pool, a main race that succeeded with a response
\* holding no A/AAAA record is followed by the fallback race: the empty main
\* response is never what ip_exchange returns, and the request ends with
\* the fallback race's result.
C22_EmptyMainYieldsFallback ==
    \A r \in Reqs :
        (cfg.fallback.some /\ MainEmpty(r))
        => /\ pc[r] \in {"fallback", "done"}
           /\ exchanged[r] # raceRes[r]["main"]
           /\ Done(r) => /\ raceRes[r]["fallback"] # RNone
                         /\ exchanged[r] = raceRes[r]["fallback"]
                         /\ result[r] \in ResolveLookup(call[r].op,
                                                        raceRes[r]["fallback"])

\* C22 witness: main answered with an empty answer section, fallback
\* answered 5.6.7.8, and the caller got 5.6.7.8.
C22_Witness ==
    \E r \in Reqs :
        /\ Done(r)
        /\ cfg.fallback.some
        /\ raceRes[r]["main"].kind = "ok"
        /\ raceRes[r]["main"].answers = <<>>
        /\ raceRes[r]["fallback"].kind = "ok"
        /\ exchanged[r] = raceRes[r]["fallback"]
        /\ result[r] = Ok(Ip4Good)

\* C23: a client's lock is held only by a request whose race on that
\* client's pool is running, and a request whose race has ended (by a
\* success, by the last failure or by the timeout) neither holds nor waits
\* for a lock; a request is made to wait only for a lock that another
\* request holds at that moment, never for one left by a finished race;
\* from some moment on every request that was made has completed (so every
\* wait for a lock has ended), whatever the interleaving of requests over
\* shared clients.
C23_NoLockLeak ==
    /\ [](\A r \in Reqs, c \in Clients :
             /\ lock[c] = r => /\ Racing(r)
                               /\ PoolOf(c) = pc[r]
                               /\ cstate[r][c] = "exch"
             /\ ~Racing(r) => cstate[r][c] \notin {"lock", "exch"})
    /\ [][ \A r \in Reqs, c \in Clients :
             (cstate[r][c] # "lock" /\ cstate'[r][c] = "lock")
             => (lock[c] \notin {0, r} /\ Racing(lock[c])) ]_vars
    /\ <>[](\A r \in Reqs : Started(r) => Done(r))

\* C23 witness: a race ended while a client of it still held a lock, and
\* another request, which had been waiting for that client, now exchanges
\* on it.
C23_Witness ==
    \E r, o \in Reqs : \E c \in Clients :
        /\ r # o
        /\ ~Racing(r)
        /\ cstate[r][c] = "dropped"
        /\ c \in called[r]
        /\ c \in called[o]
        /\ lock[c] = o
        /\ cstate[o][c] = "exch"
        /\ timer[o] > 0

\* The pull task is about to run an update that can be carried out: the
\* vehicle delivers a content and the parser accepts it.
UpdateDue ==
    /\ fetcher.thread_handle = "running"
    /\ fetcher.fire_immediately
    /\ fetcher.vehicle.read.ok
    /\ parser(fetcher.vehicle.read.v).ok

\* The content the vehicle delivers has the stored hash.
SameHash == md5(fetcher.vehicle.read.v) = fetcher.inner.hash

\* What update_inner gives at the present state once it holds the lock on
\* the FetcherInner.
UpdateReturn ==
    update_inner(fetcher.inner, fetcher.vehicle, files, MaxClock, FALSE)

\* C24: a periodic update whose content has the stored hash reports "same",
\* leaves the pull task running and does not invoke on_update; on_update is
\* invoked only by an update whose content has another hash, and after such
\* an update the stored hash is the hash of the new content, whatever the
\* vehicle type.  Stated of each turn of the pull task and of the value
\* update_inner returns.
C24_ChangeDetection ==
    /\ [][ (UpdateDue /\ fetcher'.ticks = fetcher.ticks + 1)
           => IF SameHash
              THEN /\ fetcher'.updates = fetcher.updates
                   /\ fetcher'.thread_handle = "running"
                   /\ fetcher'.inner.hash = fetcher.inner.hash
              ELSE /\ fetcher'.thread_handle = "running"
                   /\ fetcher'.inner.hash = md5(fetcher.vehicle.read.v)
                   /\ fetcher.on_update
                      => fetcher'.updates =
                           Append(fetcher.updates,
                                  parser(fetcher.vehicle.read.v).v) ]_vars
    /\ [][ fetcher'.updates # fetcher.updates => ~SameHash ]_vars
    /\ []( ( /\ fetcher.called = "ok"
             /\ fetcher.vehicle.read.ok
             /\ parser(fetcher.vehicle.read.v).ok
             /\ UpdateReturn.kind = "ok" )
           => IF SameHash
              THEN /\ UpdateReturn.same
                   /\ UpdateReturn.inner.hash = fetcher.inner.hash
              ELSE /\ ~UpdateReturn.same
                   /\ UpdateReturn.inner.hash = md5(fetcher.vehicle.read.v) )

====
